---- MODULE Spec2Model ----
(***************************************************************************)
(* The unified deck generator of TRISH (anki-trish.py): several TSV        *)
(* tables are merged into one mapping keyed by the lower-cased, trimmed    *)
(* condition name, and every retained row is turned into flashcard notes.  *)
(* Text is modelled as sequences of one-character strings so that strip,   *)
(* lower, replace, html.escape and the tag-stripping regular expression    *)
(* are computed character by character as Python computes them.           *)
(***************************************************************************)
EXTENDS Naturals, Sequences, FiniteSets

(***************************************************************************)
(* Characters.  Printable lists the ASCII characters 32..126 (the grave    *)
(* accent left out) in code-point order; the control characters sort       *)
(* before them.                                                            *)
(***************************************************************************)
Printable ==
    <<" ", "!", "\"", "#", "$", "%", "&", "'", "(", ")", "*", "+", ",", "-", ".", "/", "0",
      "1", "2", "3", "4", "5", "6", "7", "8", "9", ":", ";", "<", "=", ">", "?", "@", "A", "B",
      "C", "D", "E", "F", "G", "H", "I", "J", "K", "L", "M", "N", "O", "P", "Q", "R", "S", "T",
      "U", "V", "W", "X", "Y", "Z", "[", "\\", "]", "^", "_", "a", "b", "c", "d", "e",
      "f", "g", "h", "i", "j", "k", "l", "m", "n", "o", "p", "q", "r", "s", "t", "u", "v", "w",
      "x", "y", "z", "{", "|", "}", "~">>
UpperCase ==
    <<"A", "B", "C", "D", "E", "F", "G", "H", "I", "J", "K", "L", "M", "N", "O", "P", "Q", "R",
      "S", "T", "U", "V", "W", "X", "Y", "Z">>
LowerCase ==
    <<"a", "b", "c", "d", "e", "f", "g", "h", "i", "j", "k", "l", "m", "n", "o", "p", "q", "r",
      "s", "t", "u", "v", "w", "x", "y", "z">>
Digits ==
    <<"0", "1", "2", "3", "4", "5", "6", "7", "8", "9">>

ControlChars ==
    <<"\t", "\n", "\r">>

CodeOrder ==
    ControlChars \o Printable

Range(s) ==
    {s[i] : i \in 1..Len(s)}

Chars ==
    Range(CodeOrder)

\* Position of a character in code-point order (order-isomorphic to ord()).
CodeOf ==
    [c \in Chars |-> CHOOSE i \in 1..Len(CodeOrder) : CodeOrder[i] = c]

LowerOf ==
    [c \in Chars |->
        IF \E i \in 1..Len(UpperCase) : UpperCase[i] = c
        THEN LowerCase[CHOOSE i \in 1..Len(UpperCase) : UpperCase[i] = c]
        ELSE c]

UpperOf ==
    [c \in Chars |->
        IF \E i \in 1..Len(LowerCase) : LowerCase[i] = c
        THEN UpperCase[CHOOSE i \in 1..Len(LowerCase) : LowerCase[i] = c]
        ELSE c]

\* str.isspace() on the characters of the model.
IsSpace(c) ==
    c \in {" ", "\t", "\n", "\r"}

(***************************************************************************)
(* Python string methods.                                                  *)
(***************************************************************************)
lower(s) ==
    [i \in 1..Len(s) |-> LowerOf[s[i]]]

upper(s) ==
    [i \in 1..Len(s) |-> UpperOf[s[i]]]

RECURSIVE lstrip(_)
lstrip(s) ==
    IF s # <<>> /\ IsSpace(Head(s)) THEN lstrip(Tail(s)) ELSE s

RECURSIVE rstrip(_)
rstrip(s) ==
    IF s # <<>> /\ IsSpace(s[Len(s)]) THEN rstrip(SubSeq(s, 1, Len(s) - 1)) ELSE s

strip(s) ==
    rstrip(lstrip(s))

startswith(s, prefix) ==
    /\ Len(prefix) <= Len(s)
    /\ SubSeq(s, 1, Len(prefix)) = prefix

\* s.replace(old, new) for a one-character old.
RECURSIVE replace(_, _, _)
replace(s, old, new) ==
    IF s = <<>> THEN <<>>
    ELSE (IF Head(s) = old THEN new ELSE <<Head(s)>>) \o replace(Tail(s), old, new)

\* sep.join(parts)
RECURSIVE join(_, _)
join(sep, parts) ==
    IF parts = <<>> THEN <<>>
    ELSE IF Len(parts) = 1 THEN parts[1]
    ELSE parts[1] \o sep \o join(sep, Tail(parts))

\* s < t in Python's ordering of str (lexicographic by code point).
RECURSIVE StrLess(_, _)
StrLess(s, t) ==
    IF t = <<>> THEN FALSE
    ELSE IF s = <<>> THEN TRUE
    ELSE IF Head(s) = Head(t) THEN StrLess(Tail(s), Tail(t))
    ELSE CodeOf[Head(s)] < CodeOf[Head(t)]

\* sorted(S) for a set of strings.
RECURSIVE sorted(_)
sorted(S) ==
    IF S = {} THEN <<>>
    ELSE LET m == CHOOSE x \in S : \A y \in S \ {x} : StrLess(x, y)
         IN  <<m>> \o sorted(S \ {m})

\* str(n) for a natural number n.
RECURSIVE str(_)
str(n) ==
    IF n < Len(Digits) THEN <<Digits[n + 1]>>
    ELSE str(n \div Len(Digits)) \o <<Digits[(n % Len(Digits)) + 1]>>

\* html.escape(s) with quote=True.
RECURSIVE html_escape(_)
html_escape(s) ==
    IF s = <<>> THEN <<>>
    ELSE LET c == Head(s)
             e == IF c = "&" THEN <<"&", "a", "m", "p", ";">>
                  ELSE IF c = "<" THEN <<"&", "l", "t", ";">>
                  ELSE IF c = ">" THEN <<"&", "g", "t", ";">>
                  ELSE IF c = "\"" THEN <<"&", "q", "u", "o", "t", ";">>
                  ELSE IF c = "'" THEN <<"&", "#", "x", "2", "7", ";">>
                  ELSE <<c>>
         IN  e \o html_escape(Tail(s))

(***************************************************************************)
(* re.sub('<[^<]+?>', '', text): at a "<", the shortest run of one or more *)
(* characters other than "<" that is followed by ">" is removed together   *)
(* with both brackets; a "<" that opens no such run is kept.               *)
(***************************************************************************)
TagEnd(text) ==
    LET ends == {j \in 3..Len(text) :
                    /\ text[j] = ">"
                    /\ \A k \in 2..(j - 1) : text[k] # "<"}
    IN  IF ends = {} THEN 0
        ELSE CHOOSE j \in ends : \A k \in ends : j <= k

RECURSIVE re_sub_tags(_)
re_sub_tags(text) ==
    IF text = <<>> THEN <<>>
    ELSE IF Head(text) = "<" /\ TagEnd(text) > 0
         THEN re_sub_tags(SubSeq(text, TagEnd(text) + 1, Len(text)))
         ELSE <<Head(text)>> \o re_sub_tags(Tail(text))

clean_for_tts(text) ==
    strip(re_sub_tags(replace(text, "\n", <<".", " ">>)))

clean_tag(txt) ==
    replace(replace(strip(txt), " ", <<"_">>), "&", <<"a", "n", "d">>)

(***************************************************************************)
(* Column names: those the program tests for (anki-trish.py 207-229) and   *)
(* those of the tables below.                                              *)
(***************************************************************************)
ConditionCol ==
    <<"C", "o", "n", "d", "i", "t", "i", "o", "n">>

DiagnosticsCol ==
    <<"D", "i", "a", "g", "n", "o", "s", "t", "i", "c", "s">>

SalientCol ==
    <<"S", "a", "l", "i", "e", "n", "t", " ", "S", "i", "g", "n", "s", " ", "&", " ", "S", "y",
      "m", "p", "t", "o", "m", "s">>

UsmleCol ==
    <<"U", "S", "M", "L", "E", " ", "C", "l", "a", "s", "s", "i", "c", " ", "P", "r", "e", "s",
      "e", "n", "t", "a", "t", "i", "o", "n">>

NeverMissCol ==
    <<"N", "e", "v", "e", "r", " ", "M", "i", "s", "s">>

MoreInfoCol ==
    <<"M", "o", "r", "e", " ", "I", "n", "f", "o">>

PresentationCol ==
    <<"P", "r", "e", "s", "e", "n", "t", "a", "t", "i", "o", "n">>

NeverMissSlugCol ==
    <<"N", "e", "v", "e", "r", "_", "M", "i", "s", "s">>

TreatmentCol ==
    <<"T", "r", "e", "a", "t", "m", "e", "n", "t">>

(***************************************************************************)
(* String literals of the program.                                         *)
(***************************************************************************)
base_tag_prefix ==
    <<"T", "R", "I", "S", "H">>

DefaultDeckName ==
    <<"T", "R", "I", "S", "H">>

DeckInfoCard ==
    <<"D", "E", "C", "K", "_", "I", "N", "F", "O", "_", "C", "A", "R", "D">>

SalientHtml ==
    <<"W", "h", "a", "t", " ", "a", "r", "e", " ", "t", "h", "e", " ", "<", "u", ">", "S", "a",
      "l", "i", "e", "n", "t", " ", "S", "i", "g", "n", "s", " ", "&", " ", "S", "y", "m", "p",
      "t", "o", "m", "s", "<", "/", "u", ">", " ", "o", "f">>

SalientText ==
    <<"W", "h", "a", "t", " ", "a", "r", "e", " ", "t", "h", "e", " ", "S", "a", "l", "i", "e",
      "n", "t", " ", "S", "i", "g", "n", "s", " ", "a", "n", "d", " ", "S", "y", "m", "p", "t",
      "o", "m", "s", " ", "o", "f">>

DiagnoseHtml ==
    <<"H", "o", "w", " ", "w", "o", "u", "l", "d", " ", "y", "o", "u", " ", "<", "u", ">", "D",
      "i", "a", "g", "n", "o", "s", "e", "<", "/", "u", ">">>

DiagnoseText ==
    <<"H", "o", "w", " ", "w", "o", "u", "l", "d", " ", "y", "o", "u", " ", "D", "i", "a", "g",
      "n", "o", "s", "e">>

PresentsHtml ==
    <<"W", "h", "a", "t", " ", "<", "u", ">", "c", "o", "n", "d", "i", "t", "i", "o", "n", "<",
      "/", "u", ">", " ", "p", "r", "e", "s", "e", "n", "t", "s", " ", "a", "s", ":">>

PresentsText ==
    <<"W", "h", "a", "t", " ", "c", "o", "n", "d", "i", "t", "i", "o", "n", " ", "p", "r", "e",
      "s", "e", "n", "t", "s", " ", "a", "s">>

LabelOpen ==
    <<"<", "d", "i", "v", " ", "c", "l", "a", "s", "s", "=", "'", "l", "a", "b", "e", "l", "'",
      ">">>

LabelClose ==
    <<"<", "/", "d", "i", "v", ">", "<", "b", "r", ">">>

InfoQOpen ==
    <<"<", "b", ">">>

InfoQClose ==
    <<"<", "/", "b", ">", "<", "b", "r", ">", "V", "e", "r", "s", "i", "o", "n", " ", "I", "n",
      "f", "o", "r", "m", "a", "t", "i", "o", "n">>

InfoAOpen ==
    <<"L", "a", "s", "t", " ", "U", "p", "d", "a", "t", "e", "d", ":", " ", "<", "b", ">">>

InfoAMid ==
    <<"<", "/", "b", ">", "<", "b", "r", ">", "U", "n", "i", "q", "u", "e", " ", "C", "o", "n",
      "d", "i", "t", "i", "o", "n", "s", ":", " ">>

InfoAClose ==
    <<"<", "b", "r", ">", "<", "b", "r", ">", "C", "h", "e", "c", "k", " ", "f", "o", "r", " ",
      "u", "p", "d", "a", "t", "e", "s", " ", "r", "e", "g", "u", "l", "a", "r", "l", "y", ".">>

InfoQTts ==
    <<"D", "e", "c", "k", " ", "V", "e", "r", "s", "i", "o", "n", " ", "I", "n", "f", "o", "r",
      "m", "a", "t", "i", "o", "n">>

InfoATts ==
    <<"U", "p", "d", "a", "t", "e", "d", " ", "t", "o", " ", "v", "e", "r", "s", "i", "o", "n",
      " ">>

GenericHtmlOpen ==
    <<"W", "h", "a", "t", " ", "i", "s", " ", "t", "h", "e", " ", "<", "u", ">">>

GenericHtmlClose ==
    <<"<", "/", "u", ">", " ", "o", "f">>

GenericTextOpen ==
    <<"W", "h", "a", "t", " ", "i", "s", " ", "t", "h", "e", " ">>

GenericTextClose ==
    <<" ", "o", "f">>

BlocksTagPrefix ==
    <<":", ":", "B", "l", "o", "c", "k", "s", ":", ":">>

ConditionsTagPrefix ==
    <<":", ":", "C", "o", "n", "d", "i", "t", "i", "o", "n", "s", ":", ":">>

PresentationTagSuffix ==
    <<":", ":", "P", "r", "e", "s", "e", "n", "t", "a", "t", "i", "o", "n">>

NeverMissTagSuffix ==
    <<":", ":", "N", "e", "v", "e", "r", "_", "M", "i", "s", "s">>

MetaDataTagSuffix ==
    <<":", ":", "M", "e", "t", "a", "D", "a", "t", "a">>

PresentationLabel ==
    <<"P", "r", "e", "s", "e", "n", "t", "a", "t", "i", "o", "n">>

(***************************************************************************)
(* Cell values, file stems, deck names and version tags of the inputs.     *)
(***************************************************************************)
Gout ==
    <<"G", "o", "u", "t">>

GoutPadded ==
    <<" ", "g", "o", "u", "t", " ">>

GoutLower ==
    <<"g", "o", "u", "t">>

Flu ==
    <<"F", "l", "u">>

AandB ==
    <<"A", "&", "B">>

Rest ==
    <<"R", "e", "s", "t">>

Blank ==
    <<" ", " ">>

Aspiration ==
    <<"T", "a", "p", "\n", "<", "b", ">", "j", "o", "i", "n", "t", "<", "/", "b", ">">>

Ecg ==
    <<"E", "C", "G">>

Pcr ==
    <<"P", "C", "R">>

XltY ==
    <<"x", "<", "y">>

HotToe ==
    <<"H", "o", "t", " ", "<", "i", ">", "t", "o", "e", "<", "/", "i", ">">>

Podagra ==
    <<"P", "o", "d", "a", "g", "r", "a">>

Fever ==
    <<"F", "e", "v", "e", "r">>

Url ==
    <<"h", "t", "t", "p", ":", "/", "/", "x">>

Yes ==
    <<"Y", "e", "s">>

YesLower ==
    <<"y", "e", "s">>

YesAlways ==
    <<"Y", "E", "S", " ", "-", " ", "a", "l", "w", "a", "y", "s">>

PaddedY ==
    <<" ", "Y">>

No ==
    <<"N", "o">>

MskStem ==
    <<"m", "s", "k">>

CardioStem ==
    <<"c", "a", "r", "d", "i", "o">>

MyDeck ==
    <<"M", "y", " ", "D", "e", "c", "k">>

V2 ==
    <<"v", "2">>

(***************************************************************************)
(* Bound of the model: the number of paths given with --input.             *)
(***************************************************************************)
MaxFiles ==
    2

\* columns = None: no header kept yet (a kept header has at least one column).
None ==
    <<>>

(***************************************************************************)
(* Tables.  A table is what pd.read_csv(...).fillna('') returns: its       *)
(* columns and its rows of cell values; a row handed out by df.iterrows()  *)
(* is a Series indexed by the columns of its own table.                    *)
(***************************************************************************)
Series(index, values) ==
    [index |-> index, values |-> values]

\* col in row
Has(row, col) ==
    \E i \in 1..Len(row.index) : row.index[i] = col

\* row[col], defined when col is in the index (a KeyError otherwise).
Get(row, col) ==
    row.values[CHOOSE i \in 1..Len(row.index) : row.index[i] = col]

iterrows(df) ==
    [i \in 1..Len(df.rows) |-> Series(df.columns, df.rows[i])]

HeaderFlag ==
    <<ConditionCol, DiagnosticsCol, NeverMissCol>>

HeaderPresentation ==
    <<ConditionCol, UsmleCol, PresentationCol, MoreInfoCol>>

HeaderSlug ==
    <<ConditionCol, SalientCol, NeverMissSlugCol>>

HeaderSwapped ==
    <<TreatmentCol, ConditionCol>>

Table(columns, rows) ==
    [columns |-> columns, rows |-> rows]

Tables ==
    { Table(HeaderFlag, <<>>),
      Table(HeaderFlag, << <<Gout, Aspiration, Yes>>, <<GoutPadded, Ecg, <<>>>> >>),
      Table(HeaderFlag, << <<GoutLower, Ecg, YesLower>>, <<Flu, <<>>, No>> >>),
      Table(HeaderFlag, << <<Blank, Ecg, Yes>> >>),
      Table(HeaderFlag, << <<Flu, Pcr, YesAlways>>, <<AandB, XltY, PaddedY>>,
                           <<Gout, Ecg, No>> >>),
      Table(HeaderPresentation, << <<Gout, HotToe, Podagra, Url>> >>),
      Table(HeaderSlug, << <<Flu, Fever, No>> >>),
      Table(HeaderSwapped, << <<Rest, Flu>> >>) }

Stems ==
    {MskStem, CardioStem}

\* What a path of --input leads to: no file, a file read_csv rejects, a table.
\* (No table is read in the first two cases; df is then a placeholder.)
Sources ==
    [stem : {MskStem}, kind : {"missing", "unparsable"}, df : {Table(<<>>, <<>>)}]
        \cup [stem : Stems, kind : {"table"}, df : Tables]

DeckNames ==
    {DefaultDeckName, MyDeck}

VersionTags ==
    {<<"U", "n", "k", "n", "o", "w", "n">>, V2}

Inputs ==
    UNION {[1..n -> Sources] : n \in 1..MaxFiles}

\* os.path.splitext(os.path.basename(filepath))[0].upper()
block_name(source) ==
    upper(source.stem)

\* df.empty
empty(df) ==
    df.rows = <<>> \/ df.columns = <<>>

(***************************************************************************)
(* The merge mapping: a dict in insertion order, here the sequence of its  *)
(* items [key, row, blocks].                                               *)
(***************************************************************************)
condition_raw(row) ==
    strip(Get(row, row.index[1]))

condition_key(row) ==
    lower(condition_raw(row))

KeyIndex(md, key) ==
    {i \in 1..Len(md) : md[i].key = key}

\* MergeRow with a slip: a duplicate does not add its source's label.
MergeRow_DropsLabel(md, block, row) ==
    IF condition_raw(row) = <<>> THEN md
    ELSE IF KeyIndex(md, condition_key(row)) = {}
    THEN Append(md, [key |-> condition_key(row), row |-> row, blocks |-> {block}])
    ELSE md

\* MergeRow with a slip: a duplicate replaces the stored row.
MergeRow_LastWins(md, block, row) ==
    IF condition_raw(row) = <<>> THEN md
    ELSE IF KeyIndex(md, condition_key(row)) = {}
    THEN Append(md, [key |-> condition_key(row), row |-> row, blocks |-> {block}])
    ELSE [i \in 1..Len(md) |->
            IF md[i].key = condition_key(row)
            THEN [md[i] EXCEPT !.row = row, !.blocks = @ \cup {block}]
            ELSE md[i]]

\* The body of the row loop: one row of one table folded into the mapping.
MergeRow(md, block, row) ==
    IF condition_raw(row) = <<>> THEN md
    ELSE IF KeyIndex(md, condition_key(row)) = {}
    THEN Append(md, [key |-> condition_key(row), row |-> row, blocks |-> {block}])
    ELSE [i \in 1..Len(md) |->
            IF md[i].key = condition_key(row)
            THEN [md[i] EXCEPT !.blocks = @ \cup {block}]
            ELSE md[i]]

\* NoData with a slip: the count of merged items is not tested.
NoData_ColumnsOnly(unique_count, cols) ==
    cols = None

\* The exit test after the merge loop.
NoData(unique_count, cols) ==
    unique_count = 0 \/ cols = None

(***************************************************************************)
(* Notes.  genanki.guid_for hashes the "__"-joined arguments; the model    *)
(* keeps the argument tuple the hash is taken of.                          *)
(***************************************************************************)
guid_for(values) ==
    values

Note(fields, tags, guid) ==
    [fields |-> fields, tags |-> tags, guid |-> guid]

\* InfoNote with a slip: the version tag enters the guid, the count is one off.
InfoNote_TaggedGuid(deck_title, tag, unique_count) ==
    Note(<< InfoQOpen \o deck_title \o InfoQClose,
            InfoAOpen \o tag \o InfoAMid \o str(unique_count + 1) \o InfoAClose,
            InfoQTts,
            InfoATts \o tag,
            <<>>, <<>>, <<>> >>,
         << base_tag_prefix \o MetaDataTagSuffix >>,
         guid_for(<<DeckInfoCard, deck_title, tag>>))

InfoNote(deck_title, tag, unique_count) ==
    Note(<< InfoQOpen \o deck_title \o InfoQClose,
            InfoAOpen \o tag \o InfoAMid \o str(unique_count) \o InfoAClose,
            InfoQTts,
            InfoATts \o tag,
            <<>>, <<>>, <<>> >>,
         << base_tag_prefix \o MetaDataTagSuffix >>,
         guid_for(<<DeckInfoCard, deck_title>>))

never_miss(row) ==
    IF Has(row, NeverMissCol) THEN Get(row, NeverMissCol) ELSE <<>>

more_info_url(row) ==
    IF Has(row, MoreInfoCol) /\ strip(Get(row, MoreInfoCol)) # <<>>
    THEN Get(row, MoreInfoCol) ELSE <<>>

block_tags_list(blocks) ==
    [i \in 1..Cardinality(blocks) |->
        base_tag_prefix \o BlocksTagPrefix \o clean_tag(sorted(blocks)[i])]

prompt_html(col) ==
    IF col = SalientCol THEN SalientHtml
    ELSE IF col = DiagnosticsCol THEN DiagnoseHtml
    ELSE IF col = UsmleCol THEN PresentsHtml
    ELSE GenericHtmlOpen \o col \o GenericHtmlClose

prompt_text(col) ==
    IF col = SalientCol THEN SalientText
    ELSE IF col = DiagnosticsCol THEN DiagnoseText
    ELSE IF col = UsmleCol THEN PresentsText
    ELSE GenericTextOpen \o col \o GenericTextClose

\* IsReversed with a slip: no column is reversed.
IsReversed_Never(col) ==
    FALSE

\* The test that selects the reversed card.
IsReversed(col) ==
    col = UsmleCol

\* IsNeverMiss with a slip: the letter case of the flag is ignored.
IsNeverMiss_AnyCase(flag) ==
    flag # <<>> /\ startswith(lower(strip(flag)), <<"y">>)

\* The test that adds the never-miss tag.
IsNeverMiss(flag) ==
    flag # <<>> /\ startswith(strip(flag), <<"Y">>)

\* GuidLabel with a slip: the reversed column keeps its own name.
GuidLabel_ColumnName(col) ==
    col

\* The third argument of the note's guid.
GuidLabel(col) ==
    IF IsReversed(col) THEN PresentationLabel ELSE col

\* The columns that never become a card of their own.
IsControl(primary_col, col) ==
    col = primary_col \/ col = NeverMissCol \/ col = MoreInfoCol

\* The note of one column of one canonical row; row has primary_col and col.
CardNote(deck_title, primary_col, row, blocks, col) ==
    LET condition    == Get(row, primary_col)
        val          == Get(row, col)
        val_display  == replace(val, "\n", <<"<", "b", "r", ">">>)
        cond_display == html_escape(condition)
        val_tts      == clean_for_tts(val)
        cond_tts     == clean_for_tts(condition)
        label        == LabelOpen \o prompt_html(col) \o LabelClose
        base_tags    == Append(block_tags_list(blocks),
                               base_tag_prefix \o ConditionsTagPrefix \o clean_tag(condition))
        dir_tags     == IF IsReversed(col)
                        THEN Append(base_tags, base_tag_prefix \o PresentationTagSuffix)
                        ELSE Append(base_tags, base_tag_prefix \o <<":", ":">> \o clean_tag(col))
        current_tags == IF IsNeverMiss(never_miss(row))
                        THEN Append(dir_tags, base_tag_prefix \o NeverMissTagSuffix)
                        ELSE dir_tags
        q_disp       == IF IsReversed(col) THEN label \o val_display ELSE label \o cond_display
        a_disp       == IF IsReversed(col) THEN cond_display ELSE val_display
        q_tts        == IF IsReversed(col)
                        THEN prompt_text(col) \o <<":", " ">> \o val_tts
                        ELSE prompt_text(col) \o <<" ">> \o cond_tts \o <<"?">>
        a_tts        == IF IsReversed(col) THEN cond_tts ELSE val_tts
    IN  Note(<< q_disp, a_disp, q_tts, a_tts, never_miss(row), more_info_url(row),
                join(<<",", " ">>, sorted(blocks)) >>,
             current_tags,
             guid_for(<<deck_title, condition, GuidLabel(col)>>))

(***************************************************************************)
(* State of one run of main().                                             *)
(*   args        the parsed command line: input, deck_name, tag            *)
(*   pc          where the run is: "load" (top of the file loop), "rows"   *)
(*               (the row loop), "synth" (top of the note loop), "cols"    *)
(*               (the column loop), "done" (returned), "crashed" (an       *)
(*               uncaught exception ended the run)                         *)
(*   fi, ri      position in args.input and in the rows of the table read  *)
(*   merged_data, columns   as in the program                              *)
(*   my_deck     the notes added to the deck so far                        *)
(*   ei, ci      position in merged_data.items() and in columns            *)
(*   stdout      what was printed, one entry per print call                *)
(*   package     the output file: <<>> while absent, else <<deck>>         *)
(* pair, pair_out hold two argument lists of the note constructors and the *)
(* notes built from them (specification SpecPair).                         *)
(***************************************************************************)
VARIABLES args, pc, fi, ri, merged_data, columns, my_deck, ei, ci, stdout, package,
          pair, pair_out

vars ==
    <<args, pc, fi, ri, merged_data, columns, my_deck, ei, ci, stdout, package,
      pair, pair_out>>

run_vars ==
    <<args, pc, fi, ri, merged_data, columns, my_deck, ei, ci, stdout, package>>

pair_vars ==
    <<pair, pair_out>>

deck_title ==
    args.deck_name

source ==
    args.input[fi]

Init ==
    /\ args \in [input : Inputs, deck_name : DeckNames, tag : VersionTags]
    /\ pc = "load"
    /\ fi = 1
    /\ ri = 1
    /\ merged_data = <<>>
    /\ columns = None
    /\ my_deck = <<>>
    /\ ei = 1
    /\ ci = 1
    /\ stdout = <<"Loading">>
    /\ package = <<>>
    /\ pair = <<>>
    /\ pair_out = <<>>

\* Lines 67-69: the path does not exist.
SkipMissing ==
    /\ pc = "load" /\ fi <= Len(args.input)
    /\ source.kind = "missing"
    /\ stdout' = Append(stdout, "Warning: not found")
    /\ fi' = fi + 1
    /\ UNCHANGED <<args, pc, ri, merged_data, columns, my_deck, ei, ci, package, pair_vars>>

\* SkipUnreadable with a slip: the failed read also discards what was merged.
SkipUnreadable_Forgets ==
    /\ pc = "load" /\ fi <= Len(args.input)
    /\ source.kind = "unparsable"
    /\ stdout' = Append(stdout, "Error reading")
    /\ fi' = fi + 1
    /\ merged_data' = <<>>
    /\ UNCHANGED <<args, pc, ri, columns, my_deck, ei, ci, package, pair_vars>>

\* Lines 75-79: read_csv raises.
SkipUnreadable ==
    /\ pc = "load" /\ fi <= Len(args.input)
    /\ source.kind = "unparsable"
    /\ stdout' = Append(stdout, "Error reading")
    /\ fi' = fi + 1
    /\ UNCHANGED <<args, pc, ri, merged_data, columns, my_deck, ei, ci, package, pair_vars>>

\* Lines 81-85: a table without rows.
SkipEmpty ==
    /\ pc = "load" /\ fi <= Len(args.input)
    /\ source.kind = "table" /\ empty(source.df)
    /\ fi' = fi + 1
    /\ UNCHANGED <<args, pc, ri, merged_data, columns, my_deck, ei, ci, stdout, package,
                   pair_vars>>

\* Lines 76-87: a table with rows; the first one fixes columns.
ReadTable ==
    /\ pc = "load" /\ fi <= Len(args.input)
    /\ source.kind = "table" /\ ~empty(source.df)
    /\ columns' = IF columns = None THEN source.df.columns ELSE columns
    /\ pc' = "rows"
    /\ ri' = 1
    /\ UNCHANGED <<args, fi, merged_data, my_deck, ei, ci, stdout, package, pair_vars>>

\* Lines 89-104: one iteration of the row loop.
IterRow ==
    /\ pc = "rows" /\ ri <= Len(source.df.rows)
    /\ merged_data' = MergeRow(merged_data, block_name(source), iterrows(source.df)[ri])
    /\ ri' = ri + 1
    /\ UNCHANGED <<args, pc, fi, columns, my_deck, ei, ci, stdout, package, pair_vars>>

\* The row loop is exhausted: next path.
EndRows ==
    /\ pc = "rows" /\ ri > Len(source.df.rows)
    /\ pc' = "load"
    /\ fi' = fi + 1
    /\ UNCHANGED <<args, ri, merged_data, columns, my_deck, ei, ci, stdout, package,
                   pair_vars>>

\* Lines 106-112: nothing to generate, main returns.
ExitNoData ==
    /\ pc = "load" /\ fi > Len(args.input)
    /\ NoData(Len(merged_data), columns)
    /\ stdout' = stdout \o <<"Processed", "Generating", "No data found">>
    /\ pc' = "done"
    /\ UNCHANGED <<args, fi, ri, merged_data, columns, my_deck, ei, ci, package, pair_vars>>

\* Lines 106-200: the deck is created and the version note added;
\* columns[0] raises TypeError when columns is None.
StartDeck ==
    /\ pc = "load" /\ fi > Len(args.input)
    /\ ~NoData(Len(merged_data), columns)
    /\ stdout' = stdout \o <<"Processed", "Generating", "Embedding version info">>
    /\ my_deck' = Append(my_deck, InfoNote(deck_title, args.tag, Len(merged_data)))
    /\ pc' = IF columns = None THEN "crashed" ELSE "synth"
    /\ ei' = 1
    /\ UNCHANGED <<args, fi, ri, merged_data, columns, ci, package, pair_vars>>

primary_col ==
    columns[1]

data ==
    merged_data[ei]

\* Lines 203-214: the head of the note loop for one item of merged_data.
SynthRow ==
    /\ pc = "synth" /\ ei <= Len(merged_data)
    /\ Has(data.row, primary_col)
    /\ pc' = "cols"
    /\ ci' = 1
    /\ UNCHANGED <<args, fi, ri, merged_data, columns, my_deck, ei, stdout, package,
                   pair_vars>>

\* Line 206: row[primary_col] raises KeyError.
RowKeyError ==
    /\ pc = "synth" /\ ei <= Len(merged_data)
    /\ ~Has(data.row, primary_col)
    /\ pc' = "crashed"
    /\ UNCHANGED <<args, fi, ri, merged_data, columns, my_deck, ei, ci, stdout, package,
                   pair_vars>>

\* Lines 217-218: the identifier, flag and link columns.
SkipControlCol ==
    /\ pc = "cols" /\ ci <= Len(columns)
    /\ IsControl(primary_col, columns[ci])
    /\ ci' = ci + 1
    /\ UNCHANGED <<args, pc, fi, ri, merged_data, columns, my_deck, ei, stdout, package,
                   pair_vars>>

\* Line 220: row[col] raises KeyError.
ColKeyError ==
    /\ pc = "cols" /\ ci <= Len(columns)
    /\ ~IsControl(primary_col, columns[ci])
    /\ ~Has(data.row, columns[ci])
    /\ pc' = "crashed"
    /\ UNCHANGED <<args, fi, ri, merged_data, columns, my_deck, ei, ci, stdout, package,
                   pair_vars>>

\* Lines 220-222: a blank cell gives no note.
SkipBlankVal ==
    /\ pc = "cols" /\ ci <= Len(columns)
    /\ ~IsControl(primary_col, columns[ci])
    /\ Has(data.row, columns[ci])
    /\ strip(Get(data.row, columns[ci])) = <<>>
    /\ ci' = ci + 1
    /\ UNCHANGED <<args, pc, fi, ri, merged_data, columns, my_deck, ei, stdout, package,
                   pair_vars>>

\* Lines 224-285: the note of this column is added to the deck.
AddCard ==
    /\ pc = "cols" /\ ci <= Len(columns)
    /\ ~IsControl(primary_col, columns[ci])
    /\ Has(data.row, columns[ci])
    /\ strip(Get(data.row, columns[ci])) # <<>>
    /\ my_deck' = Append(my_deck,
                         CardNote(deck_title, primary_col, data.row, data.blocks, columns[ci]))
    /\ ci' = ci + 1
    /\ UNCHANGED <<args, pc, fi, ri, merged_data, columns, ei, stdout, package, pair_vars>>

\* The column loop is exhausted: next item.
EndCols ==
    /\ pc = "cols" /\ ci > Len(columns)
    /\ pc' = "synth"
    /\ ei' = ei + 1
    /\ UNCHANGED <<args, fi, ri, merged_data, columns, my_deck, ci, stdout, package,
                   pair_vars>>

\* Lines 287-290: the package is written.
Export ==
    /\ pc = "synth" /\ ei > Len(merged_data)
    /\ package' = <<[title |-> deck_title, notes |-> my_deck]>>
    /\ stdout' = stdout \o <<"Voice", "Success">>
    /\ pc' = "done"
    /\ UNCHANGED <<args, fi, ri, merged_data, columns, my_deck, ei, ci, pair_vars>>

Next ==
    \/ SkipMissing
    \/ SkipUnreadable
    \/ SkipEmpty
    \/ ReadTable
    \/ IterRow
    \/ EndRows
    \/ ExitNoData
    \/ StartDeck
    \/ SynthRow
    \/ RowKeyError
    \/ SkipControlCol
    \/ ColKeyError
    \/ SkipBlankVal
    \/ AddCard
    \/ EndCols
    \/ Export

Spec ==
    Init /\ [][Next]_vars

(***************************************************************************)
(* Two runs side by side.  Each side is the part of a run the note         *)
(* constructors read: deck name, version tag, schema key, one item of      *)
(* merged_data and one of its columns that yields a note.  BuildPair       *)
(* builds the version note and the column note of both sides, each side   *)
(* being a run whose merged_data holds that one item.                      *)
(***************************************************************************)
TableRows ==
    UNION {Range(iterrows(df)) : df \in Tables}

BlockSets ==
    {{block_name([stem |-> s]) : s \in S} : S \in (SUBSET Stems) \ {{}}}

\* The columns of row that yield a note when key_col is the first of the schema.
CardColumns(row, key_col) ==
    {c \in Range(row.index) : ~IsControl(key_col, c) /\ strip(Get(row, c)) # <<>>}

RowSides(r, p) ==
    {[deck_name |-> d, tag |-> t, row |-> r, primary_col |-> p, blocks |-> b, col |-> c] :
        d \in DeckNames, t \in VersionTags, b \in BlockSets, c \in CardColumns(r, p)}

Sides ==
    UNION {RowSides(rp[1], rp[2]) :
             rp \in {x \in TableRows \X Range(HeaderFlag \o HeaderSwapped) :
                        Has(x[1], x[2])}}

NotesOf(side) ==
    << InfoNote(side.deck_name, side.tag, 1),
       CardNote(side.deck_name, side.primary_col, side.row, side.blocks, side.col) >>

InitPair ==
    /\ pair \in [a : Sides, b : Sides]
    /\ pair_out = <<>>
    /\ args = [input |-> <<>>, deck_name |-> DefaultDeckName, tag |-> V2]
    /\ pc = "pair"
    /\ fi = 1
    /\ ri = 1
    /\ merged_data = <<>>
    /\ columns = None
    /\ my_deck = <<>>
    /\ ei = 1
    /\ ci = 1
    /\ stdout = <<>>
    /\ package = <<>>

BuildPair ==
    /\ pc = "pair"
    /\ pair_out = <<>>
    /\ pair_out' = <<NotesOf(pair.a), NotesOf(pair.b)>>
    /\ UNCHANGED <<run_vars, pair>>

NextPair ==
    BuildPair

SpecPair ==
    InitPair /\ [][NextPair]_vars

(***************************************************************************)
(* Vocabulary of the properties.                                           *)
(***************************************************************************)
\* The merge loop has just ended, or the run has (merged_data is not assigned
\* in between).
MergeDone ==
    \/ pc = "load" /\ fi > Len(args.input)
    \/ pc \in {"done", "crashed"}

\* The sources read_csv returned a table for.
ReadSources ==
    SelectSeq(args.input, LAMBDA s : s.kind = "table")

RECURSIVE Concat(_)
Concat(seqs) ==
    IF seqs = <<>> THEN <<>> ELSE Head(seqs) \o Concat(Tail(seqs))

\* Every row read, in processing order, with the label of its source.
RowsRead ==
    Concat([k \in 1..Len(ReadSources) |->
              [i \in 1..Len(ReadSources[k].df.rows) |->
                 [block |-> upper(ReadSources[k].stem),
                  row   |-> [index  |-> ReadSources[k].df.columns,
                             values |-> ReadSources[k].df.rows[i]]]]])

\* Trimmed, lower-cased primary identifier of a row (its first cell).
NormalizedKey(row) ==
    lower(strip(row.values[1]))

\* Positions in rows of the rows with a given non-empty key.
Hits(rows, key) ==
    {k \in 1..Len(rows) : key # <<>> /\ NormalizedKey(rows[k].row) = key}

endswith(s, suffix) ==
    /\ Len(suffix) <= Len(s)
    /\ SubSeq(s, Len(s) - Len(suffix) + 1, Len(s)) = suffix

Min(S) ==
    CHOOSE m \in S : \A n \in S : m <= n

\* Some non-key field of row differs from canon's (or canon lacks the column).
FieldsDiffer(row, canon) ==
    \E i \in 2..Len(row.index) :
        \/ \A j \in 1..Len(canon.index) : canon.index[j] # row.index[i]
        \/ \E j \in 1..Len(canon.index) :
              canon.index[j] = row.index[i] /\ canon.values[j] # row.values[i]

(***************************************************************************)
(* C1.  After the merge loop, every non-empty normalized key read has      *)
(* exactly one item; its row is the first row read with that key, and its  *)
(* origin set is the set of labels of the sources holding such a row.      *)
(***************************************************************************)
C1_FirstRowWins ==
    MergeDone =>
        LET rows == RowsRead
        IN  /\ \A i, j \in 1..Len(merged_data) :
                  merged_data[i].key = merged_data[j].key => i = j
            /\ \A k \in 1..Len(rows) :
                  NormalizedKey(rows[k].row) # <<>> =>
                     \E i \in 1..Len(merged_data) :
                        merged_data[i].key = NormalizedKey(rows[k].row)
            /\ \A i \in 1..Len(merged_data) :
                  LET hits == Hits(rows, merged_data[i].key)
                  IN  /\ hits # {}
                      /\ merged_data[i].row = rows[Min(hits)].row
                      /\ merged_data[i].blocks = {rows[k].block : k \in hits}

\* A key read from two sources with different labels and different fields.
C1_Witness ==
    /\ MergeDone
    /\ \E i \in 1..Len(merged_data) :
          /\ Cardinality(merged_data[i].blocks) > 1
          /\ \E k \in Hits(RowsRead, merged_data[i].key) :
                FieldsDiffer(RowsRead[k].row, merged_data[i].row)

(***************************************************************************)
(* C2.  After the merge loop, the mapping and the schema are those of the  *)
(* same list with the missing and unparsable sources removed (MergeAll     *)
(* folds a list of tables, none of them skipped for being unreadable).     *)
(***************************************************************************)
RECURSIVE MergeTable(_, _, _)
MergeTable(md, block, rows) ==
    IF rows = <<>> THEN md
    ELSE MergeTable(MergeRow(md, block, Head(rows)), block, Tail(rows))

RECURSIVE MergeAll(_, _)
MergeAll(md, tables) ==
    IF tables = <<>> THEN md
    ELSE MergeAll(MergeTable(md, block_name(Head(tables)), iterrows(Head(tables).df)),
                  Tail(tables))

SchemaOf(tables) ==
    LET full == SelectSeq(tables, LAMBDA s : ~empty(s.df))
    IN  IF full = <<>> THEN None ELSE full[1].df.columns

C2_SkippedSourcesLeaveNoTrace ==
    MergeDone =>
        /\ merged_data = MergeAll(<<>>, ReadSources)
        /\ columns = SchemaOf(ReadSources)

\* A run whose first source was skipped and that merged rows of a later one.
C2_Witness ==
    /\ MergeDone
    /\ merged_data # <<>>
    /\ \E i \in 1..Len(args.input) : args.input[i].kind # "table"
    /\ args.input[1].kind # "table"

(***************************************************************************)
(* C3.  A package is written only by a run that kept at least one row and  *)
(* a schema and has added the note of every cell that yields one; a run    *)
(* that ends otherwise (no data, an uncaught exception) leaves no package. *)
(***************************************************************************)
\* The (item, column) pairs whose cell yields a note.
CardCells ==
    {c \in (1..Len(merged_data)) \X (1..Len(columns)) :
        /\ columns[c[2]] \notin {columns[1], NeverMissCol, MoreInfoCol}
        /\ Has(merged_data[c[1]].row, columns[c[2]])
        /\ strip(Get(merged_data[c[1]].row, columns[c[2]])) # <<>>}

C3_NoPackageWithoutData ==
    /\ package # <<>> =>
          /\ pc = "done"
          /\ Len(merged_data) > 0
          /\ columns # None
          /\ ei > Len(merged_data)
          /\ package[1].notes = my_deck
          /\ Len(my_deck) = 1 + Cardinality(CardCells)
    /\ (MergeDone /\ (merged_data = <<>> \/ columns = None)) => package = <<>>
    /\ pc = "crashed" => package = <<>>

\* A run over a table whose only row has a blank identifier: schema kept,
\* nothing merged, returned without a package.
C3_Witness ==
    /\ pc = "done"
    /\ columns # None
    /\ merged_data = <<>>
    /\ package = <<>>
    /\ stdout[Len(stdout)] = "No data found"

(***************************************************************************)
(* C8.  The step that drops a duplicate row whose non-key fields differ    *)
(* from the canonical row's.                                               *)
(***************************************************************************)
DropsDivergentRow ==
    /\ pc = "rows"
    /\ ri <= Len(source.df.rows)
    /\ ri' = ri + 1
    /\ NormalizedKey(iterrows(source.df)[ri]) # <<>>
    /\ \E i \in 1..Len(merged_data) :
          /\ merged_data[i].key = NormalizedKey(iterrows(source.df)[ri])
          /\ FieldsDiffer(iterrows(source.df)[ri], merged_data[i].row)

CanonicalRowsKept ==
    /\ Len(merged_data') = Len(merged_data)
    /\ \A i \in 1..Len(merged_data) :
          /\ merged_data'[i].key = merged_data[i].key
          /\ merged_data'[i].row = merged_data[i].row

\* C8 as claimed: such a drop prints a diagnostic and keeps the canonical row.
C8_DiagnosticOnDivergentDrop ==
    [][DropsDivergentRow => (stdout' # stdout /\ CanonicalRowsKept)]_vars

\* C8 amended: such a drop prints nothing, keeps every canonical row and adds
\* the label of the row's source to the item's origin set.
C8_SilentDivergentDrop ==
    [][DropsDivergentRow =>
          /\ stdout' = stdout
          /\ CanonicalRowsKept
          /\ \A i \in 1..Len(merged_data) :
                merged_data'[i].blocks =
                   IF merged_data[i].key = NormalizedKey(iterrows(source.df)[ri])
                   THEN merged_data[i].blocks \cup {upper(source.stem)}
                   ELSE merged_data[i].blocks]_vars

\* The row just processed was a duplicate with fields unlike the canonical row's.
C8_Witness ==
    /\ pc = "rows"
    /\ ri > 1
    /\ \E i \in 1..Len(merged_data) :
          /\ merged_data[i].key = NormalizedKey(iterrows(source.df)[ri - 1])
          /\ FieldsDiffer(iterrows(source.df)[ri - 1], merged_data[i].row)

(***************************************************************************)
(* C10.  As claimed: once the merge loop is over, every canonical row has  *)
(* a field for every column of the schema, and no run ends in an uncaught  *)
(* exception.                                                              *)
(***************************************************************************)
C10_RowsCoverSchema ==
    /\ (MergeDone /\ columns # None) =>
          \A i \in 1..Len(merged_data) : \A c \in 1..Len(columns) :
             Has(merged_data[i].row, columns[c])
    /\ pc # "crashed"

(***************************************************************************)
(* The step that adds the note of a column of an item, and what it reads.  *)
(***************************************************************************)
AddsCard ==
    /\ pc = "cols"
    /\ Len(my_deck') = Len(my_deck) + 1

NewNote ==
    my_deck'[Len(my_deck')]

\* A cell of a row by column name.
Cell(row, col) ==
    row.values[CHOOSE i \in 1..Len(row.index) : row.index[i] = col]

\* The identifier of the item being synthesized, and the cell of the column.
Identifier ==
    Cell(merged_data[ei].row, columns[1])

Value ==
    Cell(merged_data[ei].row, columns[ci])

\* The flag of a row: its "Never Miss" cell, empty when it has none.
Flag(row) ==
    IF \E i \in 1..Len(row.index) : row.index[i] = NeverMissCol
    THEN Cell(row, NeverMissCol) ELSE <<>>

NeverMissTag ==
    <<"T", "R", "I", "S", "H", ":", ":", "N", "e", "v", "e", "r", "_", "M", "i", "s", "s">>

HasTag(note, tag) ==
    \E t \in 1..Len(note.tags) : note.tags[t] = tag

\* A column whose own tag is the never-miss tag: forward, slug "Never_Miss".
ColumnTagIsNeverMiss(col) ==
    /\ col # UsmleCol
    /\ replace(replace(strip(col), " ", <<"_">>), "&", <<"a", "n", "d">>) = NeverMissSlugCol

(***************************************************************************)
(* C5 as claimed: a flag that reads "yes" in any letter case, whatever     *)
(* follows it, puts the never-miss tag on every note of the row; an empty  *)
(* flag or one that (trimmed) does not start with "Y" puts it on none.     *)
(***************************************************************************)
C5_YesInAnyCase ==
    [][AddsCard =>
          /\ startswith(lower(Flag(merged_data[ei].row)), <<"y", "e", "s">>)
                => HasTag(NewNote, NeverMissTag)
          /\ (\/ Flag(merged_data[ei].row) = <<>>
              \/ ~startswith(strip(Flag(merged_data[ei].row)), <<"Y">>))
                => ~HasTag(NewNote, NeverMissTag)]_vars

(***************************************************************************)
(* C5 amended: every note of a row carries the never-miss tag when the     *)
(* row's flag, trimmed, starts with an upper-case "Y"; when it does not    *)
(* (empty, "No", lower-case "yes") a note carries that tag only as the tag *)
(* of its own column, a column whose slug is "Never_Miss".                 *)
(***************************************************************************)
C5_UpperCaseYOnly ==
    [][AddsCard =>
          (HasTag(NewNote, NeverMissTag) <=>
              \/ startswith(strip(Flag(merged_data[ei].row)), <<"Y">>)
              \/ ColumnTagIsNeverMiss(columns[ci]))]_vars

\* A deck with a tagged note of a row flagged " Y" and an untagged note of a
\* row flagged "yes".
C5_Witness ==
    /\ \E k \in 1..Len(my_deck) :
          my_deck[k].fields[5] = PaddedY /\ HasTag(my_deck[k], NeverMissTag)
    /\ \E k \in 1..Len(my_deck) :
          my_deck[k].fields[5] = YesLower /\ ~HasTag(my_deck[k], NeverMissTag)

(***************************************************************************)
(* C6.  The note of the "USMLE Classic Presentation" column asks with the  *)
(* cell and answers with the identifier; the note of any other column asks *)
(* with the identifier and answers with the cell.  Display text carries    *)
(* the cell with newlines as <br> and the identifier HTML-escaped; speech  *)
(* text carries both cleaned for speech.                                   *)
(***************************************************************************)
DisplayOf(val) ==
    replace(val, "\n", <<"<", "b", "r", ">">>)

C6_Direction ==
    [][AddsCard =>
          IF columns[ci] = UsmleCol
          THEN /\ endswith(NewNote.fields[1], <<"<", "b", "r", ">">> \o DisplayOf(Value))
               /\ NewNote.fields[2] = html_escape(Identifier)
               /\ endswith(NewNote.fields[3], <<":", " ">> \o clean_for_tts(Value))
               /\ NewNote.fields[4] = clean_for_tts(Identifier)
          ELSE /\ endswith(NewNote.fields[1], <<"<", "b", "r", ">">> \o html_escape(Identifier))
               /\ NewNote.fields[2] = DisplayOf(Value)
               /\ endswith(NewNote.fields[3], <<" ">> \o clean_for_tts(Identifier) \o <<"?">>)
               /\ NewNote.fields[4] = clean_for_tts(Value)]_vars

\* A written deck holding a reversed note and a forward note of one row.
C6_Witness ==
    /\ package # <<>>
    /\ \E k, l \in 1..Len(my_deck) :
          /\ my_deck[k].fields[1] = LabelOpen \o PresentsHtml \o LabelClose \o HotToe
          /\ my_deck[k].fields[2] = Gout
          /\ my_deck[l].fields[2] = Podagra
          /\ endswith(my_deck[l].fields[1], Gout)

(***************************************************************************)
(* C7.  The version note of a written deck.                                *)
(***************************************************************************)
IsVersionNote(note) ==
    note.tags = << <<"T", "R", "I", "S", "H", ":", ":", "M", "e", "t", "a", "D", "a", "t",
                     "a">> >>

VersionNotes ==
    {k \in 1..Len(package[1].notes) : IsVersionNote(package[1].notes[k])}

\* The text of the version note that reports the count.
CountReport(n) ==
    InfoAMid \o str(n) \o <<"<", "b", "r", ">">>

RECURSIVE Contains(_, _)
Contains(s, part) ==
    /\ Len(part) <= Len(s)
    /\ (startswith(s, part) \/ Contains(Tail(s), part))

\* C7 as claimed: a written deck has exactly one version note, it reports the
\* number of items of merged_data, and its identifier is one fixed value,
\* that of a run with the default deck name, whatever the inputs.
C7_FixedVersionGuid ==
    package # <<>> =>
        /\ Cardinality(VersionNotes) = 1
        /\ \A k \in VersionNotes :
              /\ Contains(package[1].notes[k].fields[2], CountReport(Len(merged_data)))
              /\ package[1].notes[k].guid = <<DeckInfoCard, DefaultDeckName>>

\* C7 amended: a written deck has exactly one version note, it reports the
\* number of items of merged_data, and its identifier is taken from the deck
\* name alone: the same for any tables and version tag, another per deck name.
C7_VersionGuidPerDeckName ==
    package # <<>> =>
        /\ Cardinality(VersionNotes) = 1
        /\ \A k \in VersionNotes :
              /\ Contains(package[1].notes[k].fields[2], CountReport(Len(merged_data)))
              /\ package[1].notes[k].guid = <<DeckInfoCard, args.deck_name>>

\* A deck of three items written under another name than the default.
C7_Witness ==
    /\ package # <<>>
    /\ Len(merged_data) > 2
    /\ args.deck_name = MyDeck
    /\ args.tag = V2

(***************************************************************************)
(* C9 as claimed: the notes added for the cells of one deck are given      *)
(* pairwise different (deck title, identifier, column-or-"Presentation")   *)
(* triples.                                                                *)
(***************************************************************************)
C9_DistinctGuidInputs ==
    \A k, l \in 2..Len(my_deck) :
        my_deck[k].guid = my_deck[l].guid => k = l

(***************************************************************************)
(* C4.  Two notes built in runs that agree on the deck title, on the       *)
(* identifier and on the column (or on the literal "Presentation" for the  *)
(* reversed column) have the same identifier, whatever else differs.       *)
(***************************************************************************)
LabelOf(col) ==
    IF col = UsmleCol THEN PresentationCol ELSE col

GuidInputs(side) ==
    <<side.deck_name, Cell(side.row, side.primary_col), LabelOf(side.col)>>

C4_GuidDependsOnTripleOnly ==
    pair_out # <<>> =>
        (GuidInputs(pair.a) = GuidInputs(pair.b)
            => pair_out[1][2].guid = pair_out[2][2].guid)

\* Two sides with equal triples that differ in version tag, origin set,
\* flag and other cells; their notes differ, their identifiers do not.
C4_Witness ==
    /\ pair_out # <<>>
    /\ GuidInputs(pair.a) = GuidInputs(pair.b)
    /\ pair.a.tag # pair.b.tag
    /\ pair.a.blocks # pair.b.blocks
    /\ pair.a.row # pair.b.row
    /\ Flag(pair.a.row) # Flag(pair.b.row)
    /\ pair_out[1][2].fields # pair_out[2][2].fields
    /\ pair_out[1][2].guid = pair_out[2][2].guid
====
